---------------------------- MODULE Spec2Model ----------------------------
(***************************************************************************)
(* CurrentConditionsHandler (src/src/handlers/current_conditions.py).      *)
(*                                                                         *)
(* One envelope at a time is handed to update(), which awaits              *)
(* process_data(); process_data runs the pipeline                          *)
(*   forecast filter -> station filter -> extract -> normalize -> enrich   *)
(*   -> tags -> timestamp -> assemble -> publish                           *)
(* inside one try/except Exception block.                                  *)
(*                                                                         *)
(* Python values are tagged records: [t |-> "none"], [t |-> "int", v],     *)
(* [t |-> "float", v] (v in tenths: 225 is 22.5), [t |-> "str", v],        *)
(* [t |-> "bool", v], [t |-> "list", v] (a sequence), [t |-> "dict", v]    *)
(* (a function from keys to values).                                       *)
(***************************************************************************)
EXTENDS Integers, Sequences, FiniteSets, TLC

VARIABLES
    pc,             \* position of the call chain update -> process_data
    full_data,      \* the envelope given to update/process_data
    metadata,       \* local of process_data (line 48)
    collector_type, \* local of process_data (line 49)
    station_info,   \* local of process_data (line 57)
    fields,         \* local of process_data (lines 69-131)
    tags,           \* local of process_data (line 112)
    timestamp,      \* local of process_data (line 124)
    exc,            \* exception in flight, "none" when there is none
    result,         \* how process_data ended: "none", "returned", "raised"
    update_result,  \* how update ended: "none", "returned", "raised"
    published,      \* calls received by event_manager.publish for this envelope
    log,            \* calls made on logger_CurrentConditionsHandler
    hist            \* history of the call: values read on the way, for the properties

vars == <<pc, full_data, metadata, collector_type, station_info, fields, tags,
          timestamp, exc, result, update_result, published, log, hist>>

---------------------------------------------------------------------------
(* Python values *)

Null == [t |-> "none"]
I(n) == [t |-> "int", v |-> n]
F(n) == [t |-> "float", v |-> n]
S(s) == [t |-> "str", v |-> s]
B(b) == [t |-> "bool", v |-> b]
L(q) == [t |-> "list", v |-> q]
D(m) == [t |-> "dict", v |-> m]

EmptyMap == [k \in {} |-> Null]

\* dict.get(key, default)
Get(m, k, d) == IF k \in DOMAIN m THEN m[k] ELSE d

\* the restriction of a mapping to the keys satisfying a test (dict comprehension)
Restrict(m, keep) == [k \in keep |-> m[k]]

\* m1 updated with every entry of m2 (fields[k] = v in a loop)
Merge(m1, m2) ==
    [k \in (DOMAIN m1) \cup (DOMAIN m2) |-> IF k \in DOMAIN m2 THEN m2[k] ELSE m1[k]]

\* sub in s, for two strings
Contains(sub, s) ==
    \E i \in 1..(Len(s) - Len(sub) + 1) : SubSeq(s, i, i + Len(sub) - 1) = sub

\* isinstance(v, (int, float, str, bool)) or v is None   (lines 77, 85, 106)
IsScalarOrNone(v) == v.t \in {"int", "float", "str", "bool", "none"}

\* Python truth value: "not x" is ~Truthy(x)
Truthy(x) ==
    CASE x.t = "none"  -> FALSE
      [] x.t = "int"   -> x.v # 0
      [] x.t = "float" -> x.v # 0
      [] x.t = "bool"  -> x.v
      [] x.t = "str"   -> x.v # ""
      [] x.t = "list"  -> Len(x.v) > 0
      [] x.t = "dict"  -> DOMAIN x.v # {}

\* x.get exists only on mappings; anything else raises AttributeError
HasGet(x) == x.t = "dict"

\* key in x: substring for str, key membership for dict, element membership for
\* list, TypeError for None and numbers
InRaises(x) == x.t \in {"none", "int", "float", "bool"}
In(key, x) ==
    CASE x.t = "str"  -> Contains(key, x.v)
      [] x.t = "dict" -> key \in DOMAIN x.v
      [] x.t = "list" -> \E i \in 1..Len(x.v) : x.v[i] = S(key)
      [] OTHER        -> FALSE

Abs(n) == IF n < 0 THEN -n ELSE n

\* str(x) for the values station info and metadata carry
Str(x) ==
    CASE x.t = "none"  -> "None"
      [] x.t = "int"   -> ToString(x.v)
      [] x.t = "float" -> (IF x.v < 0 THEN "-" ELSE "") \o ToString(Abs(x.v) \div 10)
                              \o "." \o ToString(Abs(x.v) % 10)
      [] x.t = "bool"  -> IF x.v THEN "True" ELSE "False"
      [] x.t = "str"   -> x.v
      [] x.t = "list"  -> "[...]"
      [] x.t = "dict"  -> "{...}"

Digits == <<"0", "1", "2", "3", "4", "5", "6", "7", "8", "9">>
IsDigit(c) == \E d \in 1..10 : Digits[d] = c
DigitVal(c) == (CHOOSE d \in 1..10 : Digits[d] = c) - 1

\* an optionally signed, non-empty run of decimal digits
IsIntLiteral(s) ==
    LET body == IF Len(s) > 0 /\ SubSeq(s, 1, 1) \in {"-", "+"}
                THEN SubSeq(s, 2, Len(s)) ELSE s
    IN  Len(body) > 0 /\ \A i \in 1..Len(body) : IsDigit(SubSeq(body, i, i))

RECURSIVE ParseDigits(_)
ParseDigits(s) ==
    IF Len(s) = 0 THEN 0
    ELSE 10 * ParseDigits(SubSeq(s, 1, Len(s) - 1)) + DigitVal(SubSeq(s, Len(s), Len(s)))

ParseInt(s) ==
    IF SubSeq(s, 1, 1) = "-" THEN -ParseDigits(SubSeq(s, 2, Len(s)))
    ELSE IF SubSeq(s, 1, 1) = "+" THEN ParseDigits(SubSeq(s, 2, Len(s)))
    ELSE ParseDigits(s)

\* int(x): the exception it raises, "none" when it converts
IntRaises(x) ==
    CASE x.t \in {"int", "float", "bool"}      -> "none"
      [] x.t = "str" /\ IsIntLiteral(x.v)      -> "none"
      [] x.t = "str"                           -> "ValueError"
      [] OTHER                                 -> "TypeError"

\* int(x) where it converts: floats are truncated towards zero
IntOf(x) ==
    CASE x.t = "int"   -> x.v
      [] x.t = "float" -> IF x.v >= 0 THEN x.v \div 10 ELSE -((-x.v) \div 10)
      [] x.t = "bool"  -> IF x.v THEN 1 ELSE 0
      [] x.t = "str"   -> ParseInt(x.v)

---------------------------------------------------------------------------
(* _extract_obs_fields *)

\* the three field_mapping dicts, written as the names in position order:
\* the name at place i of the sequence has position i - 1
TempestNames ==
    <<"timestamp", "wind_lull", "wind_avg", "wind_gust", "wind_direction",
      "wind_sample_interval", "station_pressure", "air_temperature",
      "relative_humidity", "illuminance", "uv", "solar_radiation",
      "rain_accumulated", "precipitation_type", "lightning_strike_avg_distance",
      "lightning_strike_count", "battery", "report_interval">>

AirNames ==
    <<"timestamp", "station_pressure", "air_temperature", "relative_humidity",
      "lightning_strike_count", "lightning_strike_avg_distance", "battery",
      "report_interval">>

SkyNames ==
    <<"timestamp", "illuminance", "uv", "rain_accumulated", "wind_lull", "wind_avg",
      "wind_gust", "wind_direction", "battery", "report_interval", "solar_radiation",
      "local_daily_rain_accumulation", "precipitation_type">>

FieldMapping(names) ==
    [n \in {names[i] : i \in 1..Len(names)} |->
        (CHOOSE i \in 1..Len(names) : names[i] = n) - 1]

\* the length from which an array is taken for a Tempest observation (line 168)
TempestLen == 18

\* the branch of _extract_obs_fields taken (lines 168, 195, 212)
SelectFamily(obs_data, ct) ==
    IF In("obs_st", ct) \/ (obs_data.t = "list" /\ Len(obs_data.v) >= TempestLen)
    THEN "tempest"
    ELSE IF In("obs_air", ct) THEN "air"
    ELSE IF In("obs_sky", ct) THEN "sky"
    ELSE "none"

FamilyMapping(family) ==
    CASE family = "tempest" -> FieldMapping(TempestNames)
      [] family = "air"     -> FieldMapping(AirNames)
      [] family = "sky"     -> FieldMapping(SkyNames)
      [] OTHER              -> EmptyMap

\* len(obs_data) and obs_data[position] inside a branch: a list is indexed, a
\* string yields its characters, a non-empty dict has no integer key, and
\* anything else has no len()
IndexRaises(obs_data) ==
    CASE obs_data.t \in {"list", "str"}              -> "none"
      [] obs_data.t = "dict" /\ DOMAIN obs_data.v = {} -> "none"
      [] obs_data.t = "dict"                          -> "KeyError"
      [] OTHER                                        -> "TypeError"

Elements(obs_data) ==
    CASE obs_data.t = "list" -> obs_data.v
      [] obs_data.t = "str"  -> [i \in 1..Len(obs_data.v) |-> S(SubSeq(obs_data.v, i, i))]
      [] OTHER               -> <<>>

\* a slip of lines 192, 209, 231: the bound test is off by one
ExtractLoopShort(field_mapping, elems) ==
    [k \in {n \in DOMAIN field_mapping : field_mapping[n] < Len(elems) - 1} |->
        elems[field_mapping[k] + 1]]

\* for field_name, position in field_mapping.items():
\*     if position < len(obs_data): fields[field_name] = obs_data[position]
ExtractLoop(field_mapping, elems) ==
    [k \in {n \in DOMAIN field_mapping : field_mapping[n] < Len(elems)} |->
        elems[field_mapping[k] + 1]]

\* _extract_obs_fields(obs_data, collector_type): the exception raised ("none" when
\* it returns) and the mapping returned
extract_obs_fields(obs_data, ct) ==
    LET family == SelectFamily(obs_data, ct) IN
    IF family # "none" /\ IndexRaises(obs_data) # "none"
    THEN [exc |-> IndexRaises(obs_data), fields |-> EmptyMap]
    ELSE [exc |-> "none",
          fields |-> ExtractLoop(FamilyMapping(family), Elements(obs_data))]

---------------------------------------------------------------------------
(* Collaborators outside the handler *)

\* utils.normalize_fields(fields): a pass over the mapping that leaves it as it is,
\* or coerces it (composite values and the empty and "unknown" placeholders are
\* dropped, integers become floats), or fails
NormalizeModes == {"keep", "coerce", "raise"}

normalize_fields(fs, mode) ==
    IF mode = "coerce"
    THEN [k \in {x \in DOMAIN fs : IsScalarOrNone(fs[x]) /\ fs[x] \notin {S(""), S("unknown")}} |->
            IF fs[k].t = "int" THEN F(10 * fs[k].v) ELSE fs[k]]
    ELSE fs

\* CalculateWeatherMetrics.calculate_weather_metrics(weather_data): what the call
\* returns, or "raise"
CalcRaises == [t |-> "raise"]

CalcOutcomes ==
    { CalcRaises,
      Null,
      D([k \in {"calculated_heat_index", "calculated_dew_point", "calculated_trend"} |->
            CASE k = "calculated_heat_index" -> F(231)
              [] k = "calculated_dew_point"  -> Null
              [] k = "calculated_trend"      -> L(<<S("steady")>>)]),
      D([k \in {"air_temperature", "calculated_vpd"} |->
            IF k = "air_temperature" THEN F(226) ELSE F(12)]) }

\* event_manager.publish(topic, record), awaited: it completes, fails with an
\* error (an Exception), or the awaiting task is cancelled (asyncio.CancelledError,
\* a BaseException that is no Exception)
PublishOutcomes == {"ok", "PublishError", "CancelledError"}

\* time.time() at line 126, in tenths of a second
ClockValues == {18004, 18019}

\* the exceptions "except Exception" catches (lines 108, 159)
ExceptionClasses ==
    {"AttributeError", "TypeError", "ValueError", "KeyError", "CalculatorError",
     "NormalizeError", "PublishError"}

---------------------------------------------------------------------------
(* Envelopes *)

\* the longest positional observation drawn
MaxObsLen == 19

Unset == [t |-> "unset"]

\* a mapping from a set of <<key, value>> pairs with distinct keys
MapOf(pairs) ==
    [k \in {p[1] : p \in pairs} |-> (CHOOSE p \in pairs : p[1] = k)[2]]

\* an optional entry: no pair when the value is Unset
Opt(k, v) == IF v = Unset THEN {} ELSE {<<k, v>>}

MetadataValues ==
    { D(MapOf(Opt("collector_type", ct))) :
        ct \in {Unset, Null, S("obs_st"), S("obs_air"), S("obs_sky"),
                S("obs_st_forecast"), S("rapid_wind")} }
    \cup { D(MapOf({<<"collector_type", S("obs_st")>>, <<"station_id", sid>>})) :
            sid \in {S("M7"), Null} }
    \cup { Unset, Null }

StationInfoValues ==
    { Unset, Null, D(EmptyMap), S("ST1"),
      D(MapOf({<<"station_id", S("ST1")>>, <<"station_elevation", I(10)>>})),
      D(MapOf({<<"station_id", Null>>, <<"station_name", S("Home")>>})),
      D(MapOf({<<"station_name", S("Home")>>, <<"station_latitude", F(-405)>>,
               <<"station_time_zone", Null>>})),
      D(MapOf({<<"station_id", I(42)>>, <<"station_elevation", F(105)>>})) }

\* positional observations: position 0 holds the timestamp, position i > 0 holds
\* i + 0.5; the variants differ in the timestamp and in what else is null or a list
ObsKinds == {"nulls", "strts", "nots", "nested"}

\* the lengths at which the variants are drawn: short, a full Air, a full Tempest
VariantLens == {2, 8, 18}

ObsElem(kind, i) ==
    IF i = 0
    THEN CASE kind = "strts" -> S("abc")
           [] kind = "nots"  -> Null
           [] OTHER          -> I(1700)
    ELSE CASE kind = "nulls"             -> Null
           [] kind = "nested" /\ i = 1   -> L(<<I(1)>>)
           [] OTHER                      -> F(10 * i + 5)

ObsArray(kind, n) == L([i \in 1..n |-> ObsElem(kind, i - 1)])

PositionalData ==
    { D(MapOf({<<"obs", L(<<ObsArray("plain", n)>>)>>})) : n \in 0..MaxObsLen }
    \cup { D(MapOf({<<"obs", L(<<ObsArray(kind, n)>>)>>})) :
            kind \in ObsKinds, n \in VariantLens }
    \cup { D(MapOf({<<"obs", L(<<x>>)>>})) : x \in {I(5), Null} }

\* keyed observations
KeyedData ==
    { D(MapOf(Opt("timestamp", ts) \cup Opt("air_temperature", th[1])
              \cup Opt("relative_humidity", th[2]) \cup extra)) :
        ts \in {Unset, F(17007), F(-15), S("12"), S("abc")},
        th \in {<<Unset, Unset>>, <<F(225), I(60)>>, <<Null, I(60)>>},
        extra \in { {<<"type", S("obs_st")>>, <<"device_id", I(7)>>},
                    {<<"note", S("unknown")>>},
                    {<<"obs", L(<<>>)>>, <<"summary", D(EmptyMap)>>} } }

DataValues == PositionalData \cup KeyedData \cup {Unset, Null}

Envelopes ==
    { D(MapOf(Opt("metadata", md) \cup Opt("station_info", si) \cup Opt("data", da))) :
        md \in MetadataValues, si \in StationInfoValues, da \in DataValues }
    \cup {Null}

---------------------------------------------------------------------------
(* process_data, stage by stage *)

Entry(level, msg) == [level |-> level, msg |-> msg]

EmptyHist ==
    [ skip       |-> "none",    \* the early return taken
      raised_at  |-> "none",    \* the stage whose code raised
      extracted  |-> EmptyMap,  \* fields as extracted (line 69 or 78)
      normalized |-> EmptyMap,  \* fields after line 85
      calc       |-> "not_called",  \* "raised" or "merged" once the calculator ran
      enriched   |-> EmptyMap,  \* fields after line 109
      now        |-> Null,      \* what time.time() returned when line 126 ran
      pub        |-> "none" ]   \* how the awaited publish call ended

Init ==
    /\ pc = "idle"
    /\ full_data = Unset
    /\ metadata = Unset
    /\ collector_type = Unset
    /\ station_info = Unset
    /\ fields = EmptyMap
    /\ tags = EmptyMap
    /\ timestamp = Unset
    /\ exc = "none"
    /\ result = "none"
    /\ update_result = "none"
    /\ published = <<>>
    /\ log = <<>>
    /\ hist = EmptyHist

\* update(full_data) is called with an envelope and awaits process_data(full_data)
update(env) ==
    /\ pc = "idle"
    /\ full_data' = env
    /\ pc' = "filter_forecast"
    /\ UNCHANGED <<metadata, collector_type, station_info, fields, tags, timestamp,
                   exc, result, update_result, published, log, hist>>

\* a slip of line 52: equality in place of the substring test
IsForecastExact(ct) == ct = S("forecast")

\* "forecast" in collector_type (line 52)
IsForecast(ct) == In("forecast", ct)

\* lines 48-54
FilterForecast ==
    /\ pc = "filter_forecast"
    /\ LET md == IF HasGet(full_data) THEN Get(full_data.v, "metadata", D(EmptyMap))
                 ELSE Unset
           ct == IF HasGet(full_data) /\ HasGet(md)
                 THEN Get(md.v, "collector_type", S("")) ELSE Unset
       IN  /\ metadata' = md
           /\ collector_type' = ct
           /\ IF ~HasGet(full_data) \/ ~HasGet(md)
              THEN /\ exc' = "AttributeError"
                   /\ hist' = [hist EXCEPT !.raised_at = "filter_forecast"]
                   /\ pc' = "except"
                   /\ UNCHANGED <<result, log>>
              ELSE IF InRaises(ct)
              THEN /\ exc' = "TypeError"
                   /\ hist' = [hist EXCEPT !.raised_at = "filter_forecast"]
                   /\ pc' = "except"
                   /\ UNCHANGED <<result, log>>
              ELSE IF IsForecast(ct)
              THEN /\ log' = Append(log, Entry("debug", "Skipping forecast data"))
                   /\ hist' = [hist EXCEPT !.skip = "forecast"]
                   /\ result' = "returned"
                   /\ pc' = "update_return"
                   /\ UNCHANGED exc
              ELSE /\ pc' = "filter_station"
                   /\ UNCHANGED <<exc, result, log, hist>>
    /\ UNCHANGED <<full_data, station_info, fields, tags, timestamp, update_result,
                   published>>

\* a slip of line 58: "station_info is None" in place of "not station_info"
NoStationInfoNoneOnly(si) == si = Null

\* not station_info (line 58)
NoStationInfo(si) == ~Truthy(si)

\* lines 57-60
FilterStation ==
    /\ pc = "filter_station"
    /\ LET si == Get(full_data.v, "station_info", D(EmptyMap)) IN
       /\ station_info' = si
       /\ IF NoStationInfo(si)
          THEN /\ log' = Append(log, Entry("debug", "No station_info available, skipping"))
               /\ hist' = [hist EXCEPT !.skip = "station_info"]
               /\ result' = "returned"
               /\ pc' = "update_return"
          ELSE /\ pc' = "extract"
               /\ UNCHANGED <<result, log, hist>>
    /\ UNCHANGED <<full_data, metadata, collector_type, fields, tags, timestamp, exc,
                   update_result, published>>

\* the keys of data that are never fields (line 75)
ReservedKeys == {"type", "hub_sn", "serial_number", "device_id", "obs", "ob"}

\* lines 73-78: the keyed observation, without reserved keys and composite values
KeyedFields(d) ==
    Restrict(d, {k \in DOMAIN d : k \notin ReservedKeys /\ IsScalarOrNone(d[k])})

\* the test of line 66, for a dict
IsPositional(d) ==
    "obs" \in DOMAIN d /\ d["obs"].t = "list" /\ Len(d["obs"].v) > 0

\* lines 62-78: the exception raised ("none" when there is none) and fields
ExtractFields(data, ct) ==
    CASE InRaises(data) -> [exc |-> "TypeError", fields |-> EmptyMap]
      [] data.t = "dict" /\ IsPositional(data.v) ->
            extract_obs_fields(data.v["obs"].v[1], ct)
      [] data.t = "dict" -> [exc |-> "none", fields |-> KeyedFields(data.v)]
      [] OTHER ->  \* a string or a list: data["obs"] or data.items() fails
            [exc |-> IF In("obs", data) THEN "TypeError" ELSE "AttributeError",
             fields |-> EmptyMap]

Extract ==
    /\ pc = "extract"
    /\ LET r == ExtractFields(Get(full_data.v, "data", D(EmptyMap)), collector_type) IN
       IF r.exc # "none"
       THEN /\ exc' = r.exc
            /\ hist' = [hist EXCEPT !.raised_at = "extract"]
            /\ pc' = "except"
            /\ UNCHANGED fields
       ELSE /\ fields' = r.fields
            /\ hist' = [hist EXCEPT !.extracted = r.fields]
            /\ pc' = "normalize"
            /\ UNCHANGED exc
    /\ UNCHANGED <<full_data, metadata, collector_type, station_info, tags, timestamp,
                   result, update_result, published, log>>

\* lines 84-85
StripComposite(fs) == Restrict(fs, {k \in DOMAIN fs : IsScalarOrNone(fs[k])})

\* lines 81-90
Normalize ==
    /\ pc = "normalize"
    /\ \E mode \in NormalizeModes :
        IF mode = "raise"
        THEN /\ exc' = "NormalizeError"
             /\ hist' = [hist EXCEPT !.raised_at = "normalize"]
             /\ pc' = "except"
             /\ UNCHANGED <<fields, result, log>>
        ELSE LET fs == StripComposite(normalize_fields(fields, mode)) IN
             /\ fields' = fs
             /\ IF DOMAIN fs = {}
                THEN /\ log' = Append(log, Entry("debug", "No valid fields to store, skipping"))
                     /\ hist' = [hist EXCEPT !.skip = "no_fields", !.normalized = fs]
                     /\ result' = "returned"
                     /\ pc' = "update_return"
                ELSE /\ hist' = [hist EXCEPT !.normalized = fs]
                     /\ pc' = "enrich"
                     /\ UNCHANGED <<result, log>>
             /\ UNCHANGED exc
    /\ UNCHANGED <<full_data, metadata, collector_type, station_info, tags, timestamp,
                   update_result, published>>

\* the test of line 93
NeedsMetrics(fs) ==
    Get(fs, "air_temperature", Null) # Null /\ Get(fs, "relative_humidity", Null) # Null

\* lines 105-107: the scalar metrics are written into fields
MergeMetrics(fs, metrics) ==
    Merge(fs, Restrict(metrics, {k \in DOMAIN metrics : IsScalarOrNone(metrics[k])}))

\* a slip of lines 102-109: the calculator is called without its own try
CalcNotCaught(e) == FALSE

\* except Exception of line 108
CalcCaught(e) == e \in ExceptionClasses

\* lines 93-109: weather_data is built (station_info.get at line 99 needs a mapping),
\* the calculator is called and its scalar results are merged
Enrich ==
    /\ pc = "enrich"
    /\ IF ~NeedsMetrics(fields)
       THEN /\ hist' = [hist EXCEPT !.enriched = fields]
            /\ pc' = "tags"
            /\ UNCHANGED <<fields, exc, log>>
       ELSE IF ~HasGet(station_info)
       THEN /\ exc' = "AttributeError"
            /\ hist' = [hist EXCEPT !.raised_at = "enrich"]
            /\ pc' = "except"
            /\ UNCHANGED <<fields, log>>
       ELSE \E out \in CalcOutcomes :
            LET e == IF out = CalcRaises THEN "CalculatorError"
                     ELSE IF ~HasGet(out) THEN "AttributeError"
                     ELSE "none"
            IN  IF e = "none"
                THEN /\ fields' = MergeMetrics(fields, out.v)
                     /\ hist' = [hist EXCEPT !.calc = "merged",
                                             !.enriched = MergeMetrics(fields, out.v)]
                     /\ pc' = "tags"
                     /\ UNCHANGED <<exc, log>>
                ELSE IF CalcCaught(e)
                THEN /\ log' = Append(log, Entry("warning", "Error calculating weather metrics"))
                     /\ hist' = [hist EXCEPT !.calc = "raised", !.enriched = fields]
                     /\ pc' = "tags"
                     /\ UNCHANGED <<fields, exc>>
                ELSE /\ exc' = e
                     /\ hist' = [hist EXCEPT !.calc = "raised", !.raised_at = "enrich"]
                     /\ pc' = "except"
                     /\ UNCHANGED <<fields, log>>
    /\ UNCHANGED <<full_data, metadata, collector_type, station_info, tags, timestamp,
                   result, update_result, published>>

\* line 114
StationIdTag(si, md) ==
    Str(Get(si, "station_id", Get(md, "station_id", S("unknown"))))

\* the station keys copied into the tags (lines 118-119)
StationTagKeys ==
    {"station_name", "station_latitude", "station_longitude", "station_elevation",
     "station_time_zone"}

\* lines 112-121
MakeTags(ct, si, md) ==
    [k \in {"collector_type", "station_id"}
            \cup {x \in StationTagKeys : x \in DOMAIN si /\ si[x] # Null} |->
        CASE k = "collector_type" -> Str(ct)
          [] k = "station_id"     -> StationIdTag(si, md)
          [] OTHER                -> Str(si[k])]

Tags ==
    /\ pc = "tags"
    /\ IF ~HasGet(station_info)
       THEN /\ exc' = "AttributeError"
            /\ hist' = [hist EXCEPT !.raised_at = "tags"]
            /\ pc' = "except"
            /\ UNCHANGED tags
       ELSE /\ tags' = MakeTags(collector_type, station_info.v, metadata.v)
            /\ pc' = "timestamp"
            /\ UNCHANGED <<exc, hist>>
    /\ UNCHANGED <<full_data, metadata, collector_type, station_info, fields, timestamp,
                   result, update_result, published, log>>

\* fields.pop("timestamp", None): what is left of fields
PopTimestamp(fs) == Restrict(fs, DOMAIN fs \ {"timestamp"})

\* a slip of lines 126, 128: floor in place of int()
ResolveTimestampFloor(popped, now) ==
    IF popped = Null THEN I(now.v \div 10)
    ELSE IF popped.t = "float" THEN I(popped.v \div 10)
    ELSE I(IntOf(popped))

\* lines 125-128 where int() converts: the timestamp of the record
ResolveTimestamp(popped, now) ==
    IF popped = Null THEN I(IntOf(now)) ELSE I(IntOf(popped))

\* lines 124-128
Timestamp ==
    /\ pc = "timestamp"
    /\ LET popped == Get(fields, "timestamp", Null) IN
       /\ fields' = PopTimestamp(fields)
       /\ IF popped = Null
          THEN \E c \in ClockValues :
                /\ timestamp' = ResolveTimestamp(popped, F(c))
                /\ hist' = [hist EXCEPT !.now = F(c)]
                /\ pc' = "assemble"
                /\ UNCHANGED exc
          ELSE IF IntRaises(popped) # "none"
          THEN /\ exc' = IntRaises(popped)
               /\ timestamp' = popped
               /\ hist' = [hist EXCEPT !.raised_at = "timestamp"]
               /\ pc' = "except"
          ELSE /\ timestamp' = ResolveTimestamp(popped, F(0))
               /\ pc' = "assemble"
               /\ UNCHANGED <<exc, hist>>
    /\ UNCHANGED <<full_data, metadata, collector_type, station_info, tags, result,
                   update_result, published, log>>

\* a slip of line 131: the null values are kept
DropNoneKeepsAll(fs) == fs

\* line 131
DropNone(fs) == Restrict(fs, {k \in DOMAIN fs : fs[k] # Null})

\* the test of line 134
NothingLeft(fs) == DOMAIN fs = {}

\* lines 139-147
Record(tg, fs, ts) ==
    [ data_type   |-> "single",
      measurement |-> "weatherflow_current_conditions",
      tags        |-> tg,
      fields      |-> fs,
      timestamp   |-> ts ]

\* lines 131-153: the record is assembled and handed to event_manager.publish,
\* whose completion is awaited
Assemble ==
    /\ pc = "assemble"
    /\ fields' = DropNone(fields)
    /\ IF NothingLeft(fields')
       THEN /\ log' = Append(log, Entry("debug", "No valid fields after filtering None values, skipping"))
            /\ hist' = [hist EXCEPT !.skip = "empty_record"]
            /\ result' = "returned"
            /\ pc' = "update_return"
            /\ UNCHANGED published
       ELSE /\ published' = Append(published,
                                   [topic  |-> "influxdb_storage_event",
                                    record |-> Record(tags, fields', timestamp)])
            /\ pc' = "awaiting"
            /\ UNCHANGED <<result, log, hist>>
    /\ UNCHANGED <<full_data, metadata, collector_type, station_info, tags, timestamp,
                   exc, update_result>>

\* the await of line 150 ends; on success lines 155-157 log and process_data returns
PublishEnds ==
    /\ pc = "awaiting"
    /\ \E out \in PublishOutcomes :
        /\ hist' = [hist EXCEPT !.pub = out,
                                !.raised_at = IF out = "ok" THEN "none" ELSE "publish"]
        /\ IF out = "ok"
           THEN /\ log' = Append(log, Entry("debug", "Published fields"))
                /\ result' = "returned"
                /\ pc' = "update_return"
                /\ UNCHANGED exc
           ELSE /\ exc' = out
                /\ pc' = "except"
                /\ UNCHANGED <<result, log>>
    /\ UNCHANGED <<full_data, metadata, collector_type, station_info, fields, tags,
                   timestamp, update_result, published>>

\* a slip of line 159: only the conversion errors are caught
CaughtValueErrorOnly(e) == e \in {"ValueError", "TypeError"}

\* a slip of lines 47-160: the publish call placed after the try block
CaughtBeforePublishOnly(e) == e \in ExceptionClasses \ {"PublishError"}

\* except Exception of line 159
Caught(e) == e \in ExceptionClasses

\* lines 159-160: an Exception is logged and process_data returns; anything else
\* leaves process_data
Except ==
    /\ pc = "except"
    /\ IF Caught(exc)
       THEN /\ log' = Append(log, Entry("error", "Error processing current conditions data"))
            /\ exc' = "none"
            /\ result' = "returned"
       ELSE /\ result' = "raised"
            /\ UNCHANGED <<exc, log>>
    /\ pc' = "update_return"
    /\ UNCHANGED <<full_data, metadata, collector_type, station_info, fields, tags,
                   timestamp, update_result, published, hist>>

\* line 240: update ends as the awaited process_data ended
UpdateReturn ==
    /\ pc = "update_return"
    /\ update_result' = result
    /\ pc' = "done"
    /\ UNCHANGED <<full_data, metadata, collector_type, station_info, fields, tags,
                   timestamp, exc, result, published, log, hist>>

\* the handler keeps nothing of an envelope: the next one starts from scratch
NextEnvelope ==
    /\ pc = "done"
    /\ pc' = "idle"
    /\ full_data' = Unset
    /\ metadata' = Unset
    /\ collector_type' = Unset
    /\ station_info' = Unset
    /\ fields' = EmptyMap
    /\ tags' = EmptyMap
    /\ timestamp' = Unset
    /\ exc' = "none"
    /\ result' = "none"
    /\ update_result' = "none"
    /\ published' = <<>>
    /\ log' = <<>>
    /\ hist' = EmptyHist

---------------------------------------------------------------------------
(* Several envelopes in flight on one handler *)

VARIABLES
    handler,    \* the attributes of the handler object (self)
    task,       \* per task awaiting update(envelope): its frame
    calls       \* the calls event_manager.publish has received, in order

cvars == <<handler, task, calls>>

\* the most tasks in flight on the handler
NumTasks == 2

Tasks == 1..NumTasks

\* __init__ (lines 36-37)
NewHandler ==
    [event_manager |-> "event_manager", collector_type |-> "current_conditions"]

\* a task that has not started
NoFrame ==
    [pc |-> "idle", full_data |-> Unset, end |-> "none", record |-> Unset,
     result |-> "none"]

InitTasks ==
    /\ handler = NewHandler
    /\ task = [t \in Tasks |-> NoFrame]
    /\ calls = <<>>

\* one envelope at a time: no task is in flight beside the call chain of vars
Next ==
    \/ (\E env \in Envelopes : update(env)) /\ UNCHANGED cvars
    \/ FilterForecast /\ UNCHANGED cvars
    \/ FilterStation /\ UNCHANGED cvars
    \/ Extract /\ UNCHANGED cvars
    \/ Normalize /\ UNCHANGED cvars
    \/ Enrich /\ UNCHANGED cvars
    \/ Tags /\ UNCHANGED cvars
    \/ Timestamp /\ UNCHANGED cvars
    \/ Assemble /\ UNCHANGED cvars
    \/ PublishEnds /\ UNCHANGED cvars
    \/ Except /\ UNCHANGED cvars
    \/ UpdateReturn /\ UNCHANGED cvars
    \/ NextEnvelope /\ UNCHANGED cvars

\* the handler is constructed and nothing is in flight
InitAll == Init /\ InitTasks

Spec == InitAll /\ [][Next]_<<vars, cvars>>

\* process_data from line 48 to the publish call of line 150, which is where it
\* first suspends: how it ends ("error", "skip" or "publish"), the exception raised,
\* and the record handed to publish. mode, calc and clock are what the normalizer,
\* the calculator and time.time() do during the call.
ProcessSync(env, mode, calc, clock) ==
    LET Error(e) == [end |-> "error", exc |-> e, record |-> Unset]
        Skip     == [end |-> "skip", exc |-> "none", record |-> Unset]
        md  == Get(env.v, "metadata", D(EmptyMap))
        ct  == Get(md.v, "collector_type", S(""))
        si  == Get(env.v, "station_info", D(EmptyMap))
        ex  == ExtractFields(Get(env.v, "data", D(EmptyMap)), ct)
        fs  == StripComposite(normalize_fields(ex.fields, mode))
        ce  == IF calc = CalcRaises THEN "CalculatorError"
               ELSE IF ~HasGet(calc) THEN "AttributeError"
               ELSE "none"
        fs2 == IF NeedsMetrics(fs) /\ ce = "none" THEN MergeMetrics(fs, calc.v) ELSE fs
        popped == Get(fs2, "timestamp", Null)
        fs3 == DropNone(PopTimestamp(fs2))
    IN  IF ~HasGet(env) \/ ~HasGet(md) THEN Error("AttributeError")
        ELSE IF InRaises(ct) THEN Error("TypeError")
        ELSE IF IsForecast(ct) THEN Skip
        ELSE IF NoStationInfo(si) THEN Skip
        ELSE IF ex.exc # "none" THEN Error(ex.exc)
        ELSE IF mode = "raise" THEN Error("NormalizeError")
        ELSE IF DOMAIN fs = {} THEN Skip
        ELSE IF NeedsMetrics(fs) /\ ~HasGet(si) THEN Error("AttributeError")
        ELSE IF NeedsMetrics(fs) /\ ce # "none" /\ ~CalcCaught(ce) THEN Error(ce)
        ELSE IF ~HasGet(si) THEN Error("AttributeError")
        ELSE IF popped # Null /\ IntRaises(popped) # "none" THEN Error(IntRaises(popped))
        ELSE IF NothingLeft(fs3) THEN Skip
        ELSE [end |-> "publish", exc |-> "none",
              record |-> Record(MakeTags(ct, si.v, md.v), fs3,
                                ResolveTimestamp(popped, F(clock)))]


\* the envelopes in flight together: a Tempest observation, a forecast, an
\* observation whose timestamp is no number, one without a timestamp
ConcEnvelopes ==
    { D(MapOf({<<"metadata", D(MapOf({<<"collector_type", S("obs_st")>>,
                                      <<"station_id", S("M7")>>}))>>,
               <<"station_info", D(MapOf({<<"station_id", S("ST1")>>,
                                          <<"station_elevation", I(10)>>}))>>,
               <<"data", D(MapOf({<<"obs", L(<<ObsArray("plain", TempestLen)>>)>>}))>>})),
      D(MapOf({<<"metadata", D(MapOf({<<"collector_type", S("obs_st_forecast")>>}))>>,
               <<"station_info", D(MapOf({<<"station_id", S("ST1")>>,
                                          <<"station_elevation", I(10)>>}))>>,
               <<"data", D(MapOf({<<"obs", L(<<ObsArray("plain", TempestLen)>>)>>}))>>})),
      D(MapOf({<<"metadata", D(MapOf({<<"collector_type", S("obs_air")>>}))>>,
               <<"station_info", D(MapOf({<<"station_id", I(42)>>,
                                          <<"station_elevation", F(105)>>}))>>,
               <<"data", D(MapOf({<<"obs", L(<<ObsArray("strts", 8)>>)>>}))>>})),
      D(MapOf({<<"metadata", D(MapOf({<<"collector_type", S("obs_sky")>>}))>>,
               <<"station_info", D(MapOf({<<"station_id", Null>>,
                                          <<"station_name", S("Home")>>}))>>,
               <<"data", D(MapOf({<<"obs", L(<<ObsArray("nots", 2)>>)>>}))>>})) }

\* a slip of line 49: the collector type kept on the handler, not in a local
HandlerKeepsType(h, env) ==
    [h EXCEPT !.collector_type =
        Str(Get(Get(env.v, "metadata", D(EmptyMap)).v, "collector_type", S("")))]

\* the handler after process_data(env) ran: lines 40-160 assign no attribute of self
HandlerAfter(h, env) == h

\* how process_data ends when exception e reaches line 159
EndsWith(e) == IF Caught(e) THEN "returned" ELSE "raised"

\* the event loop starts task t: update(env) calls process_data(env), which runs
\* without suspending up to the publish call of line 150, or to its return
StartTask(t, env) ==
    /\ task[t].pc = "idle"
    /\ \E mode \in NormalizeModes, calc \in CalcOutcomes, clock \in ClockValues :
        LET r == ProcessSync(env, mode, calc, clock) IN
        /\ task' = [task EXCEPT ![t] =
                      [pc        |-> IF r.end = "publish" THEN "awaiting" ELSE "done",
                       full_data |-> env,
                       end       |-> r.end,
                       record    |-> r.record,
                       result    |-> CASE r.end = "publish" -> "none"
                                       [] r.end = "error"   -> EndsWith(r.exc)
                                       [] OTHER             -> "returned"]]
        /\ calls' = IF r.end = "publish"
                    THEN Append(calls, [task   |-> t,
                                        topic  |-> "influxdb_storage_event",
                                        record |-> r.record])
                    ELSE calls
    /\ handler' = HandlerAfter(handler, env)

\* the await of line 150 ends for task t; lines 155-160 run and update returns
ResumeTask(t) ==
    /\ task[t].pc = "awaiting"
    /\ \E out \in PublishOutcomes :
        task' = [task EXCEPT ![t].pc = "done",
                             ![t].result = IF out = "ok" THEN "returned" ELSE EndsWith(out)]
    /\ UNCHANGED <<handler, calls>>

NextConc ==
    \/ (\E t \in Tasks, env \in ConcEnvelopes : StartTask(t, env)) /\ UNCHANGED vars
    \/ (\E t \in Tasks : ResumeTask(t)) /\ UNCHANGED vars

\* the tasks of one handler, scheduled in any order
SpecConc == InitAll /\ [][NextConc]_<<vars, cvars>>

---------------------------------------------------------------------------
(* Properties *)

\* process_data is over (update may still have to return)
Over == pc \in {"update_return", "done"}

\* the record of the publish call made for the envelope, when there is one
Rec == published[1].record

Min(a, b) == IF a < b THEN a ELSE b

\* the set of the values of a sequence from place 1 to place n
Upto(names, n) == {names[i] : i \in 1..Min(n, Len(names))}

\* the envelope is a mapping and carries a positional observation that is a list
EnvPositional ==
    /\ full_data.t = "dict"
    /\ "data" \in DOMAIN full_data.v
    /\ full_data.v["data"].t = "dict"
    /\ IsPositional(full_data.v["data"].v)
    /\ full_data.v["data"].v["obs"].v[1].t = "list"

EnvObs == full_data.v["data"].v["obs"].v[1].v

\* the extraction stage has run and left fields
Extracted ==
    /\ pc \in {"normalize", "enrich", "tags", "timestamp", "assemble", "awaiting",
               "except", "update_return", "done"}
    /\ hist.skip \notin {"forecast", "station_info"}
    /\ hist.raised_at \notin {"filter_forecast", "extract"}

\* C1: every record handed to publish has fields that are non-empty, hold no null and
\* have no "timestamp" key; and when the fields, without the timestamp and the nulls,
\* are empty, no publish call is made
C1_FieldsInvariant ==
    /\ \A i \in 1..Len(published) :
        LET fs == published[i].record.fields IN
        /\ DOMAIN fs # {}
        /\ \A k \in DOMAIN fs : fs[k] # Null
        /\ "timestamp" \notin DOMAIN fs
    /\ (\A k \in DOMAIN hist.enriched : k = "timestamp" \/ hist.enriched[k] = Null)
            => published = <<>>

C1_Witness ==
    /\ Len(published) = 1
    /\ "timestamp" \in DOMAIN hist.enriched
    /\ \E k \in DOMAIN hist.enriched : hist.enriched[k] = Null

\* the empty-record case of C1: fields were left after normalization, all of them
\* null or the timestamp, and the envelope was skipped
C1_EmptyRecordReached ==
    /\ pc = "done"
    /\ hist.skip = "empty_record"
    /\ DOMAIN hist.enriched # {}
    /\ published = <<>>

\* C2: an exception raised by any stage before the publish call is caught and logged
\* as an error, process_data and update return normally and no publish call is made;
\* nothing but a failure at the awaited publish call can leave process_data
C2_ErrorsAreDropped ==
    /\ (Over /\ hist.raised_at \notin {"none", "publish"}) =>
            /\ result = "returned"
            /\ exc = "none"
            /\ published = <<>>
            /\ Len(log) > 0
            /\ log[Len(log)].level = "error"
    /\ (pc = "done" /\ hist.raised_at # "publish") => update_result = "returned"

C2_Witness ==
    /\ pc = "done"
    /\ hist.raised_at = "timestamp"
    /\ timestamp = S("abc")
    /\ update_result = "returned"

\* C3 as claimed: a failure of the publish call leaves process_data and update
C3_PublishFailurePropagates ==
    (pc = "done" /\ hist.pub = "PublishError") =>
        (result = "raised" /\ update_result = "raised")

\* C3, amended: a publish call that fails with an Exception is caught at the top
\* level like any other error: it is logged, process_data and update return normally;
\* only the cancellation of the awaiting task leaves process_data and update
C3_PublishFailureIsCaught ==
    /\ (pc = "done" /\ hist.pub = "PublishError") =>
            /\ result = "returned"
            /\ update_result = "returned"
            /\ log[Len(log)].level = "error"
            /\ Len(published) = 1
    /\ (pc = "done" /\ update_result = "raised") => hist.pub = "CancelledError"

C3_Witness ==
    /\ pc = "done"
    /\ hist.pub = "PublishError"
    /\ update_result = "returned"

\* the envelope's metadata carries a collector type with "forecast" in it
EnvForecast ==
    /\ full_data.t = "dict"
    /\ "metadata" \in DOMAIN full_data.v
    /\ full_data.v["metadata"].t = "dict"
    /\ "collector_type" \in DOMAIN full_data.v["metadata"].v
    /\ full_data.v["metadata"].v["collector_type"].t = "str"
    /\ Contains("forecast", full_data.v["metadata"].v["collector_type"].v)

\* C4: an envelope of a forecast collector type is never published, and it is skipped
\* before station info and data are read
C4_ForecastNeverPublished ==
    EnvForecast =>
        /\ published = <<>>
        /\ station_info = Unset
        /\ fields = EmptyMap
        /\ Over => (hist.skip = "forecast" /\ result = "returned" /\ hist.raised_at = "none")

C4_Witness ==
    /\ pc = "done"
    /\ EnvForecast
    /\ EnvPositional
    /\ "station_info" \in DOMAIN full_data.v
    /\ Truthy(full_data.v["station_info"])
    /\ hist.skip = "forecast"

\* the envelope has no station info, or an empty mapping
EnvNoStationInfo ==
    /\ full_data.t = "dict"
    /\ \/ "station_info" \notin DOMAIN full_data.v
       \/ full_data.v["station_info"] = D(EmptyMap)

\* C5: an envelope without station info, or with an empty one, is never published
C5_NoStationInfoNeverPublished ==
    EnvNoStationInfo =>
        /\ published = <<>>
        /\ pc = "done" => update_result = "returned"

C5_Witness ==
    /\ pc = "done"
    /\ EnvNoStationInfo
    /\ EnvPositional
    /\ Len(EnvObs) = TempestLen
    /\ collector_type = S("obs_st")
    /\ hist.skip = "station_info"

\* the names of the table of a family, in position order
FamilyNames(family) ==
    CASE family = "tempest" -> TempestNames
      [] family = "air"     -> AirNames
      [] family = "sky"     -> SkyNames
      [] OTHER              -> <<>>

\* C6: for a positional observation of length n, extraction raises nothing and yields
\* exactly the names of the selected family's table at positions below n, each with
\* the element at its position
C6_ExtractExactlyInBounds ==
    (EnvPositional /\ pc \notin {"idle", "filter_forecast", "filter_station", "extract"}
        /\ hist.skip \notin {"forecast", "station_info"}
        /\ hist.raised_at # "filter_forecast") =>
        LET names == FamilyNames(SelectFamily(L(EnvObs), collector_type))
            n     == Min(Len(EnvObs), Len(names))
        IN  /\ hist.raised_at # "extract"
            /\ DOMAIN hist.extracted = {names[i] : i \in 1..n}
            /\ \A i \in 1..n : hist.extracted[names[i]] = EnvObs[i]

C6_Witness ==
    /\ EnvPositional
    /\ Extracted
    /\ Len(EnvObs) = 10
    /\ SelectFamily(L(EnvObs), collector_type) = "tempest"
    /\ "illuminance" \in DOMAIN hist.extracted
    /\ "uv" \notin DOMAIN hist.extracted
    /\ "rain_accumulated" \notin DOMAIN hist.extracted

\* the fields a record has when nothing was added by the calculator: the normalized
\* fields without the timestamp and without the nulls
Unenriched ==
    Restrict(hist.normalized,
             {k \in DOMAIN hist.normalized : k # "timestamp" /\ hist.normalized[k] # Null})

\* C7 as claimed: when the calculator raises, the envelope is still published with
\* the unenriched fields
C7_StillPublished ==
    (pc = "done" /\ hist.calc = "raised") =>
        (Len(published) = 1 /\ Rec.fields = Unenriched)

\* C7, amended: when the calculator raises, a warning is logged, fields are left as
\* they were and the pipeline goes on with them: the envelope is published with the
\* unenriched fields, unless the conversion of its timestamp then raises, in which
\* case it is dropped
C7_EnrichmentFailureNotFatal ==
    hist.calc = "raised" =>
        /\ hist.raised_at # "enrich"
        /\ \E i \in 1..Len(log) : log[i].level = "warning"
        /\ hist.enriched = hist.normalized
        /\ pc = "tags" => fields = hist.normalized
        /\ pc = "done" =>
            \/ hist.raised_at = "timestamp" /\ published = <<>>
            \/ Len(published) = 1 /\ Rec.fields = Unenriched

C7_Witness ==
    /\ pc = "done"
    /\ hist.calc = "raised"
    /\ Len(published) = 1
    /\ Rec.fields = Unenriched
    /\ "air_temperature" \in DOMAIN Rec.fields

\* n is the number of tenths truncated towards zero to a whole number
IsTruncationOf(n, tenths) ==
    /\ 10 * Abs(n) <= Abs(tenths)
    /\ Abs(tenths) < 10 * Abs(n) + 10
    /\ n * tenths >= 0

\* C8: the timestamp of a published record is an integer: the truncation of the
\* fields' timestamp when there is a non-null one, else of the wall clock as read
C8_TimestampResolution ==
    \A i \in 1..Len(published) :
        LET ts == published[i].record.timestamp
            v  == Get(hist.enriched, "timestamp", Null)
        IN  /\ ts.t = "int"
            /\ CASE v = Null      -> hist.now # Null /\ IsTruncationOf(ts.v, hist.now.v)
                 [] v.t = "int"   -> ts.v = v.v
                 [] v.t = "float" -> IsTruncationOf(ts.v, v.v)
                 [] v.t = "bool"  -> ts.v = IF v.v THEN 1 ELSE 0
                 [] v.t = "str"   -> ToString(ts.v) = v.v
                 [] OTHER         -> FALSE

C8_Witness ==
    /\ Len(published) = 1
    /\ Get(hist.enriched, "timestamp", Null) = F(-15)
    /\ Rec.timestamp = I(-1)

\* the wall-clock case of C8
C8_ClockReached ==
    /\ Len(published) = 1
    /\ hist.now = F(18019)
    /\ Rec.timestamp = I(1801)

\* the table C9 claims for a label and a length: the label first, the length after
ClaimedNames(label, n) ==
    IF Contains("obs_st", label) THEN TempestNames
    ELSE IF Contains("obs_air", label) THEN AirNames
    ELSE IF Contains("obs_sky", label) THEN SkyNames
    ELSE IF n >= TempestLen THEN TempestNames
    ELSE <<>>

\* C9 as claimed: the label decides the table for every length, and the length only
\* when the label names no family
C9_LabelFirst ==
    (EnvPositional /\ Extracted) =>
        DOMAIN hist.extracted =
            Upto(ClaimedNames(collector_type.v, Len(EnvObs)), Len(EnvObs))

\* C10 as claimed: the station_id tag is the string of station info's station_id
\* when it has a value, else of the metadata's, else "unknown"
C10_StationIdTag ==
    \A i \in 1..Len(published) :
        LET si == station_info.v
            md == metadata.v
        IN  published[i].record.tags["station_id"] =
                IF "station_id" \in DOMAIN si /\ si["station_id"] # Null
                THEN Str(si["station_id"])
                ELSE IF "station_id" \in DOMAIN md /\ md["station_id"] # Null
                THEN Str(md["station_id"])
                ELSE "unknown"

\* the calls task t caused
CallsOf(t) == {i \in 1..Len(calls) : calls[i].task = t}

=============================================================================
